---- MODULE Spec2Model ----
(***************************************************************************)
(* Render-resource binding layer of the renderer: the per-program uniform  *)
(* value cache (renderer/shader.rs), the material property walk and its    *)
(* texture-slot allocator (renderer/material.rs), the mapped uniform       *)
(* buffers (renderer/buffer.rs), the light packer and the camera block     *)
(* (renderer.rs), the render of one object (scene/object.rs), the frame    *)
(* (Renderer::render), the input state (input.rs) and the event handlers   *)
(* of the application (app.rs).                                            *)
(***************************************************************************)
EXTENDS Integers, Sequences, FiniteSets, Bags, TLC

(***************************************************************************)
(* Values                                                                  *)
(***************************************************************************)

\* f32 bit patterns that the operations are exercised with.
F32 == {"+0.0", "-0.0", "1.0", "NaN"}

\* `==` on f32 (IEEE 754): NaN equals nothing, the two zeros are equal.
f32_eq(a, b) ==
    /\ a # "NaN"
    /\ b # "NaN"
    /\ (a = b \/ {a, b} = {"+0.0", "-0.0"})

\* `==` on [f32; N], glam::Mat3 and glam::Mat4: component by component.
f32_array_eq(a, b) ==
    /\ Len(a) = Len(b)
    /\ \A k \in 1..Len(a) : f32_eq(a[k], b[k])

\* enum UniformValue and its From<T> conversions.
UvInt(x)   == [tag |-> "Int",   i |-> x, f |-> <<>>]
UvUInt(x)  == [tag |-> "UInt",  i |-> x, f |-> <<>>]
UvFloat(x) == [tag |-> "Float", i |-> 0, f |-> <<x>>]
VecF3(a) == [tag |-> "VecF3", i |-> 0, f |-> a]
VecF4(a) == [tag |-> "VecF4", i |-> 0, f |-> a]
Mat3(m)  == [tag |-> "Mat3",  i |-> 0, f |-> m]
Mat4(m)  == [tag |-> "Mat4",  i |-> 0, f |-> m]

\* #[derive(PartialEq)] on UniformValue: same variant and equal payload.
UniformValueEq(a, b) ==
    /\ a.tag = b.tag
    /\ a.i = b.i
    /\ f32_array_eq(a.f, b.f)

(***************************************************************************)
(* Bounds and inputs                                                       *)
(***************************************************************************)

\* Length of Material.texture_slots.  The code's array has 16 entries; the
\* model keeps the length a parameter so that a full array is reachable.
NumSlots == 2

\* Texture2D identities (GLuint ids): one more than there are slots.
NumTextures == NumSlots + 1
Textures == 1..NumTextures

\* At most this many entries in an Object's material_overrides.
MaxOverrides == 1

\* Names the linked program declares (populate_uniform_indices) ...
uniforms == {"material.diffuse", "material.specular", "material.shininess",
             "model"}

\* ... and the names callers use, one of which the program never declared.
Names == uniforms \cup {"undeclared"}

\* enum MaterialProperty
Boolean(x)     == [kind |-> "Boolean",  b |-> x,     i |-> 0, f |-> <<>>, t |-> 0]
Integer(x)     == [kind |-> "Integer",  b |-> FALSE, i |-> x, f |-> <<>>, t |-> 0]
UInteger(x)    == [kind |-> "UInteger", b |-> FALSE, i |-> x, f |-> <<>>, t |-> 0]
Float(x)       == [kind |-> "Float",    b |-> FALSE, i |-> 0, f |-> <<x>>, t |-> 0]
Vec3(a)        == [kind |-> "Vec3",     b |-> FALSE, i |-> 0, f |-> a, t |-> 0]
Color(r, g, b) == [kind |-> "Color",    b |-> FALSE, i |-> 0, f |-> <<r, g, b>>, t |-> 0]
Texture(x)     == [kind |-> "Texture",  b |-> FALSE, i |-> 0, f |-> <<>>, t |-> x]

\* Property values the edits are exercised with, per name.
PropertyNames == {"material.diffuse", "material.specular", "material.shininess",
                  "undeclared"}
BaseValues(name) ==
    CASE name = "material.diffuse"   -> {Texture(1), Texture(NumTextures)}
      [] name = "material.specular"  -> {Texture(2)}
      [] name = "material.shininess" -> {Integer(32), Texture(NumTextures)}
      [] name = "undeclared"         -> {Integer(32)}
OverrideValues(name) ==
    CASE name = "material.diffuse"   -> {Texture(2)}
      [] name = "material.specular"  -> {}
      [] name = "material.shininess" -> {Integer(1), Boolean(TRUE)}
      [] name = "undeclared"         -> {}

\* At most this many materials are made by clone_with_overrides, with one
\* of these maps as the overrides.
MaxClones == 1
CloneOverrides ==
    {[x \in {"material.shininess"} |-> Integer(1)],
     [x \in {"material.diffuse"} |-> Texture(2)]}

\* All orders in which a HashMap or HashSet over S can be iterated.
Orderings(S) ==
    {s \in [1..Cardinality(S) -> S] : \A a, b \in 1..Cardinality(S) : s[a] = s[b] => a = b}

(***************************************************************************)
(* State                                                                   *)
(***************************************************************************)
VARIABLES
    uniform_cache,    \* ShaderProgram.uniform_cache: name -> UniformValue
    gl_uniforms,      \* the device: name -> value last written by gl::Uniform*
    last_set,         \* history: name -> value passed to the latest set call
    properties,       \* Material.properties: name -> MaterialProperty
    overrides,        \* Object.material_overrides: name -> MaterialProperty
    texture_to_slot,  \* Material.texture_to_slot: texture -> slot
    texture_slots,    \* Material.texture_slots: slot -> in use
    gl_texture_units, \* the device: texture unit -> texture bound to it
    clones,           \* the materials made by Material::clone_with_overrides
    lights,           \* Scene.lights: the kind of each light, in list order
    light_uniforms,   \* the local LightUniforms of update_light_parameters
    light_ubo,        \* Renderer.light_ubo: the store on the device (data, and
                      \* whether its contents are defined), mapped, bound
    camera,           \* Scene.camera: position, direction, fov and the two
                      \* matrices
    camera_ubo,       \* Renderer.camera_ubo, as light_ubo
    input_manager,    \* App.input_manager: the maps and numbers of InputManager
    cursor_grabbed,   \* GfxData.cursor_grabbed
    wireframe,        \* Renderer.wireframe
    flashlight,       \* Renderer.flashlight
    since_update,     \* history: the events and the mouse motion events since
                      \* the latest InputManager::update, and the total
                      \* movement of the latter
    fatal,            \* "none", or the panic that ended the process
    log               \* what the latest operation did

shader_vars == <<uniform_cache, gl_uniforms, last_set>>
material_vars == <<properties, overrides, texture_to_slot, texture_slots,
                   gl_texture_units, clones>>
light_vars == <<lights, light_uniforms, light_ubo>>
camera_vars == <<camera, camera_ubo>>
scene_vars == <<light_vars, camera_vars>>
app_vars == <<input_manager, cursor_grabbed, wireframe, flashlight, since_update>>
vars == <<shader_vars, material_vars, scene_vars, app_vars, fatal, log>>

Empty == [x \in {} |-> 0]

(***************************************************************************)
(* ShaderProgram                                                           *)
(***************************************************************************)

\* A call made to the device.
Event(ev, name) == [ev |-> ev, name |-> name]

\* The part of the state a uniform write works on; commits, setters and
\* gl_calls collect the set_uniform calls made, the closures invoked and the
\* gl::Uniform* calls issued, events the calls to the device in the order of
\* issue.
Program(cache, gl, last) ==
    [cache |-> cache, gl |-> gl, last |-> last, fatal |-> "none",
     commits |-> EmptyBag, setters |-> EmptyBag, gl_calls |-> EmptyBag,
     events |-> <<>>]

\* ShaderProgram::use_program
use_program(p) == [p EXCEPT !.events = Append(@, Event("UseProgram", ""))]

\* get_uniform_location: the location of a declared name, a panic otherwise.
get_uniform_location_ok(name) == name \in uniforms

\* setter with a lookup that answers -1 for an unknown name, which
\* gl::Uniform* ignores.
setter_ignores_unknown(p, name, value) ==
    LET call == SetToBag({[name |-> name, value |-> value]})
        q == [p EXCEPT !.setters = @ (+) call]
    IN  IF get_uniform_location_ok(name)
        THEN [q EXCEPT !.gl = (name :> value) @@ @,
                       !.gl_calls = @ (+) call,
                       !.events = Append(@, Event("Uniform", name))]
        ELSE q

\* The closure each set_uniform_* passes: resolve the location, then write.
setter(p, name, value) ==
    LET call == SetToBag({[name |-> name, value |-> value]})
        q == [p EXCEPT !.setters = @ (+) call]
    IN  IF get_uniform_location_ok(name)
        THEN [q EXCEPT !.gl = (name :> value) @@ @,
                       !.gl_calls = @ (+) call,
                       !.events = Append(@, Event("Uniform", name))]
        ELSE [q EXCEPT !.fatal = "uniform_not_found"]

\* cache_hit without the comparison: every call writes.
cache_hit_never(cache, name, new_value) == FALSE

\* The early return of set_uniform: a cached value that equals the new one.
cache_hit(cache, name, new_value) ==
    /\ name \in DOMAIN cache
    /\ UniformValueEq(cache[name], new_value)

\* set_uniform that records the value in the cache only once the setter has
\* returned.
set_uniform_caches_after(p, name, new_value) ==
    LET q == [p EXCEPT !.last = (name :> new_value) @@ @,
                       !.commits = @ (+) SetToBag({[name |-> name, value |-> new_value]})]
        r == setter(q, name, new_value)
    IN  IF cache_hit(q.cache, name, new_value) THEN q
        ELSE IF r.fatal = "none"
             THEN [r EXCEPT !.cache = (name :> new_value) @@ @]
             ELSE r

\* ShaderProgram::set_uniform
set_uniform(p, name, new_value) ==
    LET q == [p EXCEPT !.last = (name :> new_value) @@ @,
                       !.commits = @ (+) SetToBag({[name |-> name, value |-> new_value]})]
    IN  IF cache_hit(q.cache, name, new_value) THEN q
        ELSE setter([q EXCEPT !.cache = (name :> new_value) @@ @],
                    name, new_value)

set_uniform_4f(p, name, x, y, z, w)  == set_uniform(p, name, VecF4(<<x, y, z, w>>))
set_uniform_1f(p, name, x)           == set_uniform(p, name, UvFloat(x))
set_uniform_1i(p, name, x)           == set_uniform(p, name, UvInt(x))
set_uniform_1ui(p, name, x)          == set_uniform(p, name, UvUInt(x))
set_uniform_mat4(p, name, mat)       == set_uniform(p, name, Mat4(mat))
set_uniform_mat3(p, name, mat)       == set_uniform(p, name, Mat3(mat))
set_uniform_3fv(p, name, x)          == set_uniform(p, name, VecF3(x))
set_uniform_3f(p, name, x, y, z)     == set_uniform(p, name, VecF3(<<x, y, z>>))

(***************************************************************************)
(* Light packing                                                           *)
(***************************************************************************)

MAX_POINT_LIGHTS == 10
MAX_SPOT_LIGHTS == 5
MAX_DIRECTIONAL_LIGHTS == 5

\* The scene holds at most MaxLights lights, and the kind changes at most
\* MaxKindChanges times along the list.
MaxLights == 11
MaxKindChanges == 3

LightKinds == {"point", "spot", "directional"}

\* MaybeUninit::<LightUniforms>::zeroed(): an array entry holds the list
\* position (1-based) of the light written to it, 0 while it is zeroed.
zeroed ==
    [ambient |-> 0,
     directional |-> [k \in 0..(MAX_DIRECTIONAL_LIGHTS - 1) |-> 0],
     point |-> [k \in 0..(MAX_POINT_LIGHTS - 1) |-> 0],
     spot |-> [k \in 0..(MAX_SPOT_LIGHTS - 1) |-> 0],
     nr_point_lights |-> 0,
     nr_spot_lights |-> 0,
     nr_directional_lights |-> 0]

\* exceeded, off by one.
exceeded_off_by_one(index, max) == index > max

\* The guard `index >= MAX_*_LIGHTS` in front of each panic!.
exceeded(index, max) == index >= max

\* pack_light that skips a light for which no entry is left.
pack_light_drops(r, kind, id) ==
    IF kind = "spot"
    THEN LET index == r.u.nr_spot_lights
         IN  IF exceeded(index, MAX_SPOT_LIGHTS) THEN r
             ELSE [r EXCEPT !.u.spot[index] = id, !.u.nr_spot_lights = @ + 1]
    ELSE IF kind = "point"
    THEN LET index == r.u.nr_point_lights
         IN  IF exceeded(index, MAX_POINT_LIGHTS) THEN r
             ELSE [r EXCEPT !.u.point[index] = id, !.u.nr_point_lights = @ + 1]
    ELSE IF kind = "directional"
    THEN LET index == r.u.nr_directional_lights
         IN  IF exceeded(index, MAX_DIRECTIONAL_LIGHTS) THEN r
             ELSE [r EXCEPT !.u.directional[index] = id,
                            !.u.nr_directional_lights = @ + 1]
    ELSE r

\* pack_light with one index for all kinds: the light at list position id
\* is written to entry id - 1 of the array of its kind.
pack_light_by_list_position(r, kind, id) ==
    IF kind = "spot"
    THEN IF exceeded(r.u.nr_spot_lights, MAX_SPOT_LIGHTS)
         THEN [r EXCEPT !.fatal = "Exceeded maximum number of spot lights"]
         ELSE [r EXCEPT !.u.spot[(id - 1) % MAX_SPOT_LIGHTS] = id,
                        !.u.nr_spot_lights = @ + 1]
    ELSE IF kind = "point"
    THEN IF exceeded(r.u.nr_point_lights, MAX_POINT_LIGHTS)
         THEN [r EXCEPT !.fatal = "Exceeded maximum number of point lights"]
         ELSE [r EXCEPT !.u.point[(id - 1) % MAX_POINT_LIGHTS] = id,
                        !.u.nr_point_lights = @ + 1]
    ELSE IF kind = "directional"
    THEN IF exceeded(r.u.nr_directional_lights, MAX_DIRECTIONAL_LIGHTS)
         THEN [r EXCEPT !.fatal = "Exceeded maximum number of directional lights"]
         ELSE [r EXCEPT !.u.directional[(id - 1) % MAX_DIRECTIONAL_LIGHTS] = id,
                        !.u.nr_directional_lights = @ + 1]
    ELSE r

\* The loop body of update_light_parameters for the light at position id:
\* [u: the block so far, fatal: the panic, if any].
pack_light(r, kind, id) ==
    IF kind = "spot"
    THEN LET index == r.u.nr_spot_lights
         IN  IF exceeded(index, MAX_SPOT_LIGHTS)
             THEN [r EXCEPT !.fatal = "Exceeded maximum number of spot lights"]
             ELSE [r EXCEPT !.u.spot[index] = id, !.u.nr_spot_lights = @ + 1]
    ELSE IF kind = "point"
    THEN LET index == r.u.nr_point_lights
         IN  IF exceeded(index, MAX_POINT_LIGHTS)
             THEN [r EXCEPT !.fatal = "Exceeded maximum number of point lights"]
             ELSE [r EXCEPT !.u.point[index] = id, !.u.nr_point_lights = @ + 1]
    ELSE IF kind = "directional"
    THEN LET index == r.u.nr_directional_lights
         IN  IF exceeded(index, MAX_DIRECTIONAL_LIGHTS)
             THEN [r EXCEPT !.fatal = "Exceeded maximum number of directional lights"]
             ELSE [r EXCEPT !.u.directional[index] = id,
                            !.u.nr_directional_lights = @ + 1]
    ELSE r

\* `for light in &self.scene.lights`, from position id on; a panic ends it.
RECURSIVE pack_lights(_, _, _)
pack_lights(r, list, id) ==
    IF id > Len(list) \/ r.fatal # "none" THEN r
    ELSE pack_lights(pack_light(r, list[id], id), list, id + 1)

\* Buffer::bind and Buffer::unbind on the buffer's target.
bind(ubo) == [ubo EXCEPT !.bound = TRUE]
unbind(ubo) == [ubo EXCEPT !.bound = FALSE]

\* gl::MapBufferRange with MAP_WRITE_BIT | MAP_INVALIDATE_RANGE_BIT: a null
\* pointer when it fails; otherwise the region is mapped and its previous
\* contents are no longer defined.
MapBufferRange(ubo, map_ok) ==
    IF map_ok THEN [ubo EXCEPT !.mapped = TRUE, !.defined = FALSE] ELSE ubo

\* UnmapBuffer that leaves the region mapped.
UnmapBuffer_noop(ubo, unmap_ok) == [ubo EXCEPT !.defined = unmap_ok]

\* gl::UnmapBuffer: the region is unmapped; GL_FALSE says the contents of
\* the store became undefined.
UnmapBuffer(ubo, unmap_ok) == [ubo EXCEPT !.mapped = FALSE, !.defined = unmap_ok]

\* UniformBuffer::map_data with a setter that leaves `data` in the mapped
\* region; map_ok and unmap_ok are what gl::MapBufferRange and
\* gl::UnmapBuffer answer.  [ubo: the buffer afterwards, err: the Err, if
\* any, events: the calls made]
map_data(ubo, data, map_ok, unmap_ok) ==
    LET mapped == MapBufferRange(bind(ubo), map_ok)
    IN  IF ~map_ok
        THEN [ubo |-> mapped, err |-> "Failed to map buffer",
              events |-> <<Event("BindBuffer", ""), Event("MapBufferRange", "null")>>]
        ELSE [ubo |-> unbind(UnmapBuffer([mapped EXCEPT !.data = data], unmap_ok)),
              err |-> IF unmap_ok THEN "none" ELSE "Failed to unmap buffer",
              events |-> <<Event("BindBuffer", ""), Event("MapBufferRange", ""),
                           Event("write", ""), Event("UnmapBuffer", ""),
                           Event("UnbindBuffer", "")>>]

\* update_light_parameters that packs straight into the mapped region.
update_light_parameters_packs_mapped(ubo, list, map_ok, unmap_ok) ==
    LET r == pack_lights([u |-> zeroed, fatal |-> "none"], list, 1)
        u == [r.u EXCEPT !.ambient = 1]
        res == map_data(ubo, u, map_ok, unmap_ok)
    IN  IF ~map_ok
        THEN [u |-> zeroed, ubo |-> res.ubo, fatal |-> "Couldn't update light UBO",
              events |-> res.events]
        ELSE IF r.fatal # "none"
        THEN [u |-> r.u, ubo |-> MapBufferRange(bind(ubo), TRUE), fatal |-> r.fatal,
              events |-> <<Event("BindBuffer", ""), Event("MapBufferRange", "")>>]
        ELSE [u |-> u, ubo |-> res.ubo,
              fatal |-> IF res.err = "none" THEN "none"
                        ELSE "Couldn't update light UBO",
              events |-> res.events]

\* Renderer::update_light_parameters on the light list and the light buffer:
\* pack into a local block, then map_data(..).expect(..).
\* [u: the local block, ubo: the buffer afterwards, fatal: the panic, if any,
\* events: the calls made]
update_light_parameters(ubo, list, map_ok, unmap_ok) ==
    LET r == pack_lights([u |-> zeroed, fatal |-> "none"], list, 1)
        u == [r.u EXCEPT !.ambient = 1]
        res == map_data(ubo, u, map_ok, unmap_ok)
    IN  IF r.fatal # "none"
        THEN [u |-> r.u, ubo |-> ubo, fatal |-> r.fatal, events |-> <<>>]
        ELSE [u |-> u, ubo |-> res.ubo,
              fatal |-> IF res.err = "none" THEN "none"
                        ELSE "Couldn't update light UBO",
              events |-> res.events]

(***************************************************************************)
(* Camera and camera block                                                 *)
(***************************************************************************)

\* The camera moves along one axis, between 0 and MaxCameraPos.
MaxCameraPos == 2

\* What a frame's input holds for the camera: the movement key held, whether
\* the right button is held, the mouse movement and the wheel movement.
CameraKeys == {"none", "KeyW", "KeyS"}
MouseDeltas == {0, 1}
WheelDeltas == {-22, 0, 22}

\* Mat4::look_to_rh and Mat4::perspective_rh_gl: a matrix stands for the
\* arguments it was built from; IDENTITY is the matrix built from none.
look_to_rh(position, direction) == [eye |-> position, dir |-> direction]
perspective_rh_gl(fov) == [fov |-> fov]
IDENTITY == [fov |-> 0]

\* f32::clamp
clamp(x, lo, hi) == IF x < lo THEN lo ELSE IF x > hi THEN hi ELSE x

\* Camera::new
Camera_new ==
    [position |-> 1, direction |-> 0, fov |-> 45,
     projection_matrix |-> IDENTITY,
     view_matrix |-> look_to_rh(1, 0)]

\* Camera::update_direction: only while the right button is held.
update_direction(cam, right_pressed, mouse_delta) ==
    IF ~right_pressed THEN cam
    ELSE [cam EXCEPT !.direction = (@ + mouse_delta) % 2]

\* Camera::update_position: forwards with KeyW, backwards with KeyS.
update_position(cam, key) ==
    CASE key = "KeyW" -> [cam EXCEPT !.position = @ + 1]
      [] key = "KeyS" -> [cam EXCEPT !.position = @ - 1]
      [] OTHER -> cam

\* Camera::update_projection
update_projection(cam, wheel) ==
    LET fov == clamp(cam.fov - wheel, 1, 45)
    IN  [cam EXCEPT !.fov = fov, !.projection_matrix = perspective_rh_gl(fov)]

\* Camera::update
camera_update(cam, key, right_pressed, mouse_delta, wheel) ==
    LET moved == update_position(update_direction(cam, right_pressed, mouse_delta), key)
    IN  update_projection(
            [moved EXCEPT !.view_matrix = look_to_rh(moved.position, moved.direction)],
            wheel)

\* struct CameraUniforms, as gl::BufferData(.., null, ..) leaves it.
CameraUniforms_empty ==
    [view |-> look_to_rh(0, 0), projection |-> IDENTITY, view_pos |-> <<0, 0>>]

\* The closure that leaves the projection of the mapped block alone.
camera_setter_skips_projection(block, cam) ==
    [block EXCEPT !.view = cam.view_matrix,
                  !.view_pos = <<cam.position, 1>>]

\* The closure update_camera_buffer passes to map_data.
camera_setter(block, cam) ==
    [block EXCEPT !.view = cam.view_matrix,
                  !.projection = cam.projection_matrix,
                  !.view_pos = <<cam.position, 1>>]

\* Renderer::update_camera_buffer: map_data(..).expect(..).
\* [ubo: the buffer afterwards, fatal: the panic, if any, events]
update_camera_buffer(ubo, cam, map_ok, unmap_ok) ==
    LET res == map_data(ubo, camera_setter(ubo.data, cam), map_ok, unmap_ok)
    IN  [ubo |-> res.ubo,
         fatal |-> IF res.err = "none" THEN "none" ELSE "Couldn't update camera UBO",
         events |-> res.events]

(***************************************************************************)
(* InputManager                                                            *)
(***************************************************************************)

\* The keys and buttons of the events, and the movement a mouse motion event
\* reports; at most MaxEvents events arrive between two frames.
Keys == {"AltLeft", "KeyL"}
MouseButtons == {"Right"}
ElementStates == {"Pressed", "Released"}
MotionDeltas == {1}
MaxEvents == 2

\* InputManager::new
InputManager_new ==
    [keys |-> Empty, just_pressed |-> Empty, just_released |-> Empty,
     mouse_delta |-> 0, mouse_wheel_delta |-> 0,
     mouse_buttons |-> Empty, just_pressed_mouse_buttons |-> Empty,
     just_released_mouse_buttons |-> Empty]

\* map.get(&key).copied().unwrap_or(false)
get_or_false(map, key) == IF key \in DOMAIN map THEN map[key] ELSE FALSE

is_key_pressed(im, key) == get_or_false(im.keys, key)
is_key_just_pressed(im, key) == get_or_false(im.just_pressed, key)
is_key_just_released(im, key) == get_or_false(im.just_released, key)
is_mouse_button_pressed(im, button) == get_or_false(im.mouse_buttons, button)
is_mouse_button_just_pressed(im, button) ==
    get_or_false(im.just_pressed_mouse_buttons, button)
is_mouse_button_just_released(im, button) ==
    get_or_false(im.just_released_mouse_buttons, button)

\* InputManager::update
update(im) ==
    [im EXCEPT !.just_pressed = Empty, !.just_released = Empty,
               !.mouse_delta = 0, !.mouse_wheel_delta = 0,
               !.just_pressed_mouse_buttons = Empty,
               !.just_released_mouse_buttons = Empty]

\* InputManager::process_key_event; a repeated event is ignored.
process_key_event(im, key, state, repeat) ==
    IF repeat THEN im
    ELSE IF state = "Pressed"
    THEN [im EXCEPT !.keys = (key :> TRUE) @@ @,
                    !.just_pressed = (key :> TRUE) @@ @]
    ELSE [im EXCEPT !.keys = (key :> FALSE) @@ @,
                    !.just_released = (key :> TRUE) @@ @]

\* InputManager::process_mouse_delta
process_mouse_delta(im, dx) == [im EXCEPT !.mouse_delta = dx]

\* InputManager::process_mouse_button
process_mouse_button(im, button, state) ==
    IF state = "Pressed"
    THEN [im EXCEPT !.mouse_buttons = (button :> TRUE) @@ @,
                    !.just_pressed_mouse_buttons = (button :> TRUE) @@ @]
    ELSE [im EXCEPT !.mouse_buttons = (button :> FALSE) @@ @,
                    !.just_released_mouse_buttons = (button :> TRUE) @@ @]

(***************************************************************************)
(* Direct uniform writes (the set_uniform_* calls of the render path)      *)
(***************************************************************************)

\* Arguments the setters are exercised with.
DirectNames == {"material.shininess", "material.diffuse", "undeclared"}
I32In  == {0, 32}
U32In  == {32}
Vec3In == {<<"1.0", "1.0", "1.0">>, <<"+0.0", "1.0", "1.0">>,
           <<"-0.0", "1.0", "1.0">>}
Vec4In == {<<"1.0", "1.0", "1.0", "1.0">>}
Mat3In == {[k \in 1..9 |-> IF k \in {1, 5, 9} THEN "1.0" ELSE "+0.0"]}
Mat4In == {[k \in 1..16 |-> IF k \in {1, 6, 11, 16} THEN "1.0" ELSE "+0.0"],
           [k \in 1..16 |-> IF k \in {1, 6, 11, 16} THEN "1.0" ELSE "-0.0"]}

\* added and removed are the textures an activation gave a slot and took
\* the slot from; frame holds the calls of a frame, camera_moved whether its
\* scene update changed the view; name, state and repeat describe an event.
NoLog == [op |-> "none", name |-> "", value |-> UvInt(0),
          setters |-> EmptyBag, gl_calls |-> EmptyBag,
          commits |-> EmptyBag, binds |-> EmptyBag, first |-> FALSE,
          streak |-> 0, events |-> <<>>, frame |-> <<>>,
          state |-> "", repeat |-> FALSE, camera_moved |-> FALSE,
          added |-> {}, removed |-> {}]

\* One set_uniform_* call on the program, started from the current state.
Call(op, name, value, p) ==
    /\ uniform_cache' = p.cache
    /\ gl_uniforms' = p.gl
    /\ last_set' = p.last
    /\ fatal' = p.fatal
    /\ log' = [NoLog EXCEPT !.op = op, !.name = name, !.value = value,
                            !.commits = p.commits, !.setters = p.setters,
                            !.gl_calls = p.gl_calls,
                            !.streak = IF /\ log.op = op
                                          /\ log.name = name
                                          /\ log.value = value
                                       THEN 2 ELSE 1]
    /\ UNCHANGED <<app_vars, material_vars, scene_vars>>

Current == Program(uniform_cache, gl_uniforms, last_set)

SetUniform4f ==
    /\ fatal = "none"
    /\ \E name \in DirectNames, a \in Vec4In :
          Call("set_uniform", name, VecF4(a),
               set_uniform_4f(Current, name, a[1], a[2], a[3], a[4]))

SetUniform1f ==
    /\ fatal = "none"
    /\ \E name \in DirectNames, x \in F32 :
          Call("set_uniform", name, UvFloat(x), set_uniform_1f(Current, name, x))

SetUniform1i ==
    /\ fatal = "none"
    /\ \E name \in DirectNames, x \in I32In :
          Call("set_uniform", name, UvInt(x), set_uniform_1i(Current, name, x))

SetUniform1ui ==
    /\ fatal = "none"
    /\ \E name \in DirectNames, x \in U32In :
          Call("set_uniform", name, UvUInt(x), set_uniform_1ui(Current, name, x))

SetUniformMat4 ==
    /\ fatal = "none"
    /\ \E name \in DirectNames, m \in Mat4In :
          Call("set_uniform", name, Mat4(m), set_uniform_mat4(Current, name, m))

SetUniformMat3 ==
    /\ fatal = "none"
    /\ \E name \in DirectNames, m \in Mat3In :
          Call("set_uniform", name, Mat3(m), set_uniform_mat3(Current, name, m))

SetUniform3fv ==
    /\ fatal = "none"
    /\ \E name \in DirectNames, a \in Vec3In :
          Call("set_uniform", name, VecF3(a), set_uniform_3fv(Current, name, a))

SetUniform3f ==
    /\ fatal = "none"
    /\ \E name \in DirectNames, a \in Vec3In :
          Call("set_uniform", name, VecF3(a),
               set_uniform_3f(Current, name, a[1], a[2], a[3]))

Init ==
    /\ uniform_cache = Empty
    /\ gl_uniforms = Empty
    /\ last_set = Empty
    /\ fatal = "none"
    /\ log = NoLog
    /\ properties = Empty
    /\ overrides = Empty
    /\ texture_to_slot = Empty
    /\ texture_slots = [k \in 0..(NumSlots - 1) |-> FALSE]
    /\ gl_texture_units = Empty
    /\ clones = <<>>
    /\ lights = <<>>
    /\ light_uniforms = zeroed
    /\ light_ubo = [data |-> zeroed, defined |-> FALSE, mapped |-> FALSE,
                    bound |-> TRUE]
    /\ camera = Camera_new
    /\ camera_ubo = [data |-> CameraUniforms_empty, defined |-> FALSE,
                     mapped |-> FALSE, bound |-> FALSE]
    /\ input_manager = InputManager_new
    /\ cursor_grabbed = FALSE
    /\ wireframe = FALSE
    /\ flashlight = FALSE
    /\ since_update = [events |-> 0, motions |-> 0, moved |-> 0]

NextUniform ==
    \/ SetUniform4f
    \/ SetUniform1f
    \/ SetUniform1i
    \/ SetUniform1ui
    \/ SetUniformMat4
    \/ SetUniformMat3
    \/ SetUniform3fv
    \/ SetUniform3f

SpecUniform == Init /\ [][NextUniform]_vars

(***************************************************************************)
(* PropertiesMap                                                           *)
(***************************************************************************)

\* PropertiesMap::set (and set_boolean .. set_texture): insert or replace.
set(map, name, value) == (name :> value) @@ map

\* PropertiesMap::delete
delete(map, name) == [n \in (DOMAIN map) \ {name} |-> map[n]]

(***************************************************************************)
(* Material                                                                *)
(***************************************************************************)

\* Integer casts of the code.
bool_as_i32(x) == IF x THEN 1 ELSE 0
u32_as_i32(x) == IF x <= 2147483647 THEN x ELSE ((x - 2147483647) - 2147483647) - 2

\* position_free that answers slot 0 when no slot is free.
position_free_wraps(slots) ==
    IF \E k \in DOMAIN slots : ~slots[k]
    THEN CHOOSE k \in DOMAIN slots :
            /\ ~slots[k]
            /\ \A j \in DOMAIN slots : ~slots[j] => k <= j
    ELSE 0

\* position_free that takes the last slot not in use.
position_free_last(slots) ==
    IF \E k \in DOMAIN slots : ~slots[k]
    THEN CHOOSE k \in DOMAIN slots :
            /\ ~slots[k]
            /\ \A j \in DOMAIN slots : ~slots[j] => k >= j
    ELSE -1

\* texture_slots.iter().position(|&x| !x): the first slot not in use, or
\* -1 for None.
position_free(slots) ==
    IF \E k \in DOMAIN slots : ~slots[k]
    THEN CHOOSE k \in DOMAIN slots :
            /\ ~slots[k]
            /\ \A j \in DOMAIN slots : ~slots[j] => k <= j
    ELSE -1

\* used_textures of update_texture_slots: the textures of the material's own
\* properties.
used_textures(props) ==
    {props[n].t : n \in {x \in DOMAIN props : props[x].kind = "Texture"}}

\* remove_unused without texture_to_slot.remove(texture).
remove_unused_keeps_entry(m, unused) ==
    [m EXCEPT
       !.texture_slots =
           [k \in DOMAIN @ |->
               IF \E x \in unused : m.texture_to_slot[x] = k THEN FALSE ELSE @[k]]]

\* "Remove unused textures from the map": free the slot, drop the entry.
remove_unused(m, unused) ==
    [m EXCEPT
       !.texture_slots =
           [k \in DOMAIN @ |->
               IF \E x \in unused : m.texture_to_slot[x] = k THEN FALSE ELSE @[k]],
       !.texture_to_slot = [x \in (DOMAIN @) \ unused |-> @[x]]]

\* "Add new textures to the map", in the iteration order of unbound_textures;
\* unwrap() panics when no slot is free.
RECURSIVE add_unbound(_, _)
add_unbound(m, unbound) ==
    IF unbound = <<>> THEN m
    ELSE LET slot == position_free(m.texture_slots)
         IN  IF slot = -1
             THEN [m EXCEPT !.fatal = "no_free_texture_slot"]
             ELSE add_unbound(
                     [m EXCEPT !.texture_slots[slot] = TRUE,
                               !.texture_to_slot = (Head(unbound) :> slot) @@ @],
                     Tail(unbound))

\* Material::update_texture_slots; torder is the iteration order of the
\* HashSet of textures.
update_texture_slots(m, torder) ==
    LET used == used_textures(properties)
        bound == DOMAIN m.texture_to_slot
        unbound == SelectSeq(torder, LAMBDA x : x \in used \ bound)
    IN  add_unbound(remove_unused(m, bound \ used), unbound)

\* lookup without the override.
lookup_base_only(name) == properties[name]

\* The value use_material dispatches on: the override when there is one.
lookup(name) ==
    IF name \in DOMAIN overrides THEN overrides[name] ELSE properties[name]

\* The Texture arm of the match in use_material.
use_texture(m, name, texture, torder) ==
    LET m1 == IF texture \in DOMAIN m.texture_to_slot
              THEN m
              ELSE update_texture_slots(m, torder)
    IN  IF m1.fatal # "none" THEN m1
        ELSE IF texture \notin DOMAIN m1.texture_to_slot
        THEN [m1 EXCEPT !.fatal = "texture_slot_not_found"]
        ELSE set_uniform_1i(m1, name, u32_as_i32(m1.texture_to_slot[texture]))

\* use_property over a composed list in which an override is added to the
\* base entry of its name: the base value is committed, then the override.
use_property_visits_both(m, name, torder) ==
    LET commit(q, value) ==
            CASE value.kind = "Boolean"  -> set_uniform_1i(q, name, bool_as_i32(value.b))
              [] value.kind = "Integer"  -> set_uniform_1i(q, name, value.i)
              [] value.kind = "UInteger" -> set_uniform_1ui(q, name, value.i)
              [] value.kind = "Float"    -> set_uniform_1f(q, name, value.f[1])
              [] value.kind = "Vec3"     -> set_uniform_3fv(q, name, value.f)
              [] value.kind = "Color"    ->
                    set_uniform_3f(q, name, value.f[1], value.f[2], value.f[3])
              [] value.kind = "Texture"  -> use_texture(q, name, value.t, torder)
        base == commit(m, properties[name])
    IN  IF name \notin DOMAIN overrides THEN base
        ELSE IF base.fatal # "none" THEN base
        ELSE commit(base, overrides[name])

\* The body of the property loop of use_material for one (name, value).
use_property(m, name, torder) ==
    LET value == lookup(name)
    IN  CASE value.kind = "Boolean"  -> set_uniform_1i(m, name, bool_as_i32(value.b))
          [] value.kind = "Integer"  -> set_uniform_1i(m, name, value.i)
          [] value.kind = "UInteger" -> set_uniform_1ui(m, name, value.i)
          [] value.kind = "Float"    -> set_uniform_1f(m, name, value.f[1])
          [] value.kind = "Vec3"     -> set_uniform_3fv(m, name, value.f)
          [] value.kind = "Color"    ->
                set_uniform_3f(m, name, value.f[1], value.f[2], value.f[3])
          [] value.kind = "Texture"  -> use_texture(m, name, value.t, torder)

\* The property loop of use_material over the names in iteration order; a
\* panic ends it.
RECURSIVE use_properties(_, _, _)
use_properties(m, order, torder) ==
    IF order = <<>> \/ m.fatal # "none" THEN m
    ELSE use_properties(use_property(m, Head(order), torder), Tail(order), torder)

\* "Bind textures": Texture2D::bind_slot for every entry of texture_to_slot.
bind_textures(units, t2s) ==
    [u \in (DOMAIN units) \cup {t2s[x] : x \in DOMAIN t2s} |->
        IF \E x \in DOMAIN t2s : t2s[x] = u
        THEN CHOOSE x \in DOMAIN t2s : t2s[x] = u
        ELSE units[u]]

\* The bind_slot calls of "Bind textures", one per entry of texture_to_slot.
bind_calls(t2s) ==
    SetToBag({[texture |-> x, slot |-> t2s[x]] : x \in DOMAIN t2s})

\* The textures referenced by the override-resolved properties of the
\* material.
resolved_textures ==
    {lookup(n).t : n \in {x \in DOMAIN properties : lookup(x).kind = "Texture"}}

\* The state Material::use_material works on.
Activation ==
    [cache |-> uniform_cache, gl |-> gl_uniforms, last |-> last_set,
     fatal |-> "none", commits |-> EmptyBag, setters |-> EmptyBag,
     gl_calls |-> EmptyBag, events |-> <<>>,
     texture_to_slot |-> texture_to_slot, texture_slots |-> texture_slots]

\* The calls of the "Bind textures" loop: one bind_slot per entry.
bind_events(t2s) == [k \in 1..Cardinality(DOMAIN t2s) |-> Event("BindTexture", "")]

\* use_material that leaves the current program as it is.
use_material_keeps_program(a, order, torder) ==
    LET m == use_properties(a, order, torder)
    IN  IF m.fatal # "none" THEN m
        ELSE [m EXCEPT !.events = @ \o bind_events(m.texture_to_slot)]

\* Material::use_material on the activation state a: use_program, the
\* property loop and, unless that panicked, the bind loop.
use_material(a, order, torder) ==
    LET m == use_properties(use_program(a), order, torder)
    IN  IF m.fatal # "none" THEN m
        ELSE [m EXCEPT !.events = @ \o bind_events(m.texture_to_slot)]

\* Mesh::draw
draw(m) == [m EXCEPT !.events = Append(@, Event("Draw", ""))]

\* Object::render that draws before it activates the material.
object_render_draws_first(a, order, torder, model_matrix) ==
    LET m == use_material(draw(a), order, torder)
    IN  IF m.fatal # "none" THEN m
        ELSE set_uniform_mat4(m, "model", model_matrix)

\* Object::render on the activation state a: use_material, the model
\* matrix, the draw call; a panic ends it.
object_render(a, order, torder, model_matrix) ==
    LET m == use_material(a, order, torder)
        u == IF m.fatal # "none" THEN m
             ELSE set_uniform_mat4(m, "model", model_matrix)
    IN  IF u.fatal # "none" THEN u ELSE draw(u)

\* Material::use_material(&self, overrides)
UseMaterial ==
    /\ fatal = "none"
    /\ \E order \in Orderings(DOMAIN properties),
          torder \in Orderings(used_textures(properties) \ DOMAIN texture_to_slot) :
          \E m \in {use_material(Activation, order, torder)} :
          LET done == m.fatal = "none"
          IN  /\ uniform_cache' = m.cache
              /\ gl_uniforms' = m.gl
              /\ last_set' = m.last
              /\ texture_to_slot' = m.texture_to_slot
              /\ texture_slots' = m.texture_slots
              /\ fatal' = m.fatal
              /\ gl_texture_units' =
                    IF done THEN bind_textures(gl_texture_units, m.texture_to_slot)
                    ELSE gl_texture_units
              /\ log' = [NoLog EXCEPT
                           !.op = "use_material",
                           !.setters = m.setters,
                           !.gl_calls = m.gl_calls,
                           !.commits = m.commits,
                           !.binds = IF done
                                     THEN bind_calls(m.texture_to_slot)
                                     ELSE EmptyBag,
                           !.first = (uniform_cache = Empty),
                           !.streak = IF log.op = "use_material" THEN 2 ELSE 1,
                           !.added = (DOMAIN m.texture_to_slot)
                                        \ (DOMAIN texture_to_slot),
                           !.removed = {[texture |-> x, slot |-> texture_to_slot[x]] :
                                          x \in (DOMAIN texture_to_slot)
                                                   \ (DOMAIN m.texture_to_slot)}]
              /\ UNCHANGED <<app_vars, properties, overrides, clones, scene_vars>>

\* material.properties_mut().set*(name, value)
PropertiesSet ==
    /\ fatal = "none"
    /\ \E name \in PropertyNames : \E value \in BaseValues(name) :
          properties' = set(properties, name, value)
    /\ log' = [NoLog EXCEPT !.op = "edit"]
    /\ UNCHANGED <<app_vars, shader_vars, overrides, texture_to_slot, texture_slots,
                   gl_texture_units, clones, scene_vars, fatal>>

\* material.properties_mut().delete(name)
PropertiesDelete ==
    /\ fatal = "none"
    /\ \E name \in DOMAIN properties :
          properties' = delete(properties, name)
    /\ log' = [NoLog EXCEPT !.op = "edit"]
    /\ UNCHANGED <<app_vars, shader_vars, overrides, texture_to_slot, texture_slots,
                   gl_texture_units, clones, scene_vars, fatal>>

\* object.material_overrides.set*(name, value)
OverridesSet ==
    /\ fatal = "none"
    /\ \E name \in PropertyNames : \E value \in OverrideValues(name) :
          /\ Cardinality(DOMAIN overrides \cup {name}) <= MaxOverrides
          /\ overrides' = set(overrides, name, value)
    /\ log' = [NoLog EXCEPT !.op = "edit"]
    /\ UNCHANGED <<app_vars, shader_vars, properties, texture_to_slot, texture_slots,
                   gl_texture_units, clones, scene_vars, fatal>>

\* object.material_overrides.delete(name)
OverridesDelete ==
    /\ fatal = "none"
    /\ \E name \in DOMAIN overrides :
          overrides' = delete(overrides, name)
    /\ log' = [NoLog EXCEPT !.op = "edit"]
    /\ UNCHANGED <<app_vars, shader_vars, properties, texture_to_slot, texture_slots,
                   gl_texture_units, clones, scene_vars, fatal>>

NextMaterial ==
    \/ UseMaterial
    \/ PropertiesSet
    \/ PropertiesDelete
    \/ OverridesSet
    \/ OverridesDelete

SpecMaterial == Init /\ [][NextMaterial]_vars

\* The fields of the material that clone_with_overrides reads.
Self ==
    [properties |-> properties, texture_to_slot |-> texture_to_slot,
     texture_slots |-> texture_slots]

\* clone_with_overrides that extends the map of the material itself.
clone_with_overrides_extends_self(self, new_overrides) ==
    LET extended == [self EXCEPT !.properties = new_overrides @@ @]
    IN  [self |-> extended, new |-> extended]

\* clone_with_overrides that copies the slot mapping and starts from the
\* flags of Material::new.
clone_with_overrides_fresh_flags(self, new_overrides) ==
    [self |-> self,
     new |-> [properties |-> new_overrides @@ self.properties,
              texture_to_slot |-> self.texture_to_slot,
              texture_slots |-> [k \in DOMAIN self.texture_slots |-> FALSE]]]

\* Material::clone_with_overrides: a copy of the properties extended with
\* the overrides, and copies of the slot mapping and of the flags.
\* [self: the material afterwards, new: the material returned]
clone_with_overrides(self, new_overrides) ==
    [self |-> self,
     new |-> [properties |-> new_overrides @@ self.properties,
              texture_to_slot |-> self.texture_to_slot,
              texture_slots |-> self.texture_slots]]

\* material.clone_with_overrides(name, overrides)
CloneWithOverrides ==
    /\ fatal = "none"
    /\ Len(clones) < MaxClones
    /\ \E new_overrides \in CloneOverrides :
          LET r == clone_with_overrides(Self, new_overrides)
          IN  /\ properties' = r.self.properties
              /\ texture_to_slot' = r.self.texture_to_slot
              /\ texture_slots' = r.self.texture_slots
              /\ clones' = Append(clones, r.new)
    /\ log' = [NoLog EXCEPT !.op = "clone_with_overrides"]
    /\ UNCHANGED <<app_vars, shader_vars, overrides, gl_texture_units, scene_vars, fatal>>

\* Object::render of an object that draws with the material.
ObjectRender ==
    /\ fatal = "none"
    /\ \E order \in Orderings(DOMAIN properties),
          torder \in Orderings(used_textures(properties) \ DOMAIN texture_to_slot),
          model_matrix \in Mat4In :
          \E m \in {object_render(Activation, order, torder, model_matrix)} :
          LET done == \E k \in 1..Len(m.events) : m.events[k].ev = "BindTexture"
          IN  /\ uniform_cache' = m.cache
              /\ gl_uniforms' = m.gl
              /\ last_set' = m.last
              /\ texture_to_slot' = m.texture_to_slot
              /\ texture_slots' = m.texture_slots
              /\ fatal' = m.fatal
              /\ gl_texture_units' =
                    IF m.fatal = "none"
                    THEN bind_textures(gl_texture_units, m.texture_to_slot)
                    ELSE gl_texture_units
              /\ log' = [NoLog EXCEPT
                           !.op = "object_render",
                           !.setters = m.setters,
                           !.gl_calls = m.gl_calls,
                           !.commits = m.commits,
                           !.binds = IF m.fatal = "none"
                                     THEN bind_calls(m.texture_to_slot)
                                     ELSE EmptyBag,
                           !.events = m.events]
              /\ UNCHANGED <<app_vars, properties, overrides, clones, scene_vars>>

\* The material and the overrides are set up before the first frame
\* (Renderer::init); the frames only render.
SetUp == log.op \in {"none", "edit"}

NextRender ==
    \/ ObjectRender
    \/ CloneWithOverrides
    \/ (SetUp /\ PropertiesSet)
    \/ (SetUp /\ PropertiesDelete)
    \/ (SetUp /\ OverridesSet)
    \/ (SetUp /\ OverridesDelete)

SpecRender == Init /\ [][NextRender]_vars

\* How often the kind changes along a list of lights.
kind_changes(list) ==
    Cardinality({k \in 1..(Len(list) - 1) : list[k] # list[k + 1]})

\* Scene::add_light, called while Renderer::init builds the scene, before
\* the first frame.
AddLight ==
    /\ fatal = "none"
    /\ log.op \in {"none", "add_light"}
    /\ Len(lights) < MaxLights
    /\ \E kind \in LightKinds :
          /\ kind_changes(Append(lights, kind)) <= MaxKindChanges
          /\ lights' = Append(lights, kind)
    /\ log' = [NoLog EXCEPT !.op = "add_light"]
    /\ UNCHANGED <<app_vars, shader_vars, material_vars, light_uniforms, light_ubo,
                   camera_vars, fatal>>

\* Renderer::update_light_parameters
UpdateLightParameters ==
    /\ fatal = "none"
    /\ \E map_ok, unmap_ok \in BOOLEAN :
          LET r == update_light_parameters(light_ubo, lights, map_ok, unmap_ok)
          IN  /\ light_uniforms' = r.u
              /\ light_ubo' = r.ubo
              /\ fatal' = r.fatal
              /\ log' = [NoLog EXCEPT !.op = "update_light_parameters",
                                      !.events = r.events]
    /\ UNCHANGED <<app_vars, shader_vars, material_vars, lights, camera_vars>>

NextLights ==
    \/ AddLight
    \/ UpdateLightParameters

SpecLights == Init /\ [][NextLights]_vars

\* Camera::update, called by Scene::update at the start of a frame.
CameraUpdate ==
    /\ fatal = "none"
    /\ \E key \in CameraKeys, right_pressed \in BOOLEAN,
          mouse_delta \in MouseDeltas, wheel \in WheelDeltas :
          LET cam == camera_update(camera, key, right_pressed, mouse_delta, wheel)
          IN  /\ cam.position \in 0..MaxCameraPos
              /\ camera' = cam
    /\ log' = [NoLog EXCEPT !.op = "camera_update"]
    /\ UNCHANGED <<app_vars, shader_vars, material_vars, light_vars, camera_ubo, fatal>>

\* Renderer::update_camera_buffer, which Renderer::render calls after
\* Scene::update.
UpdateCameraBuffer ==
    /\ fatal = "none"
    /\ log.op = "camera_update"
    /\ \E map_ok, unmap_ok \in BOOLEAN :
          LET r == update_camera_buffer(camera_ubo, camera, map_ok, unmap_ok)
          IN  /\ camera_ubo' = r.ubo
              /\ fatal' = r.fatal
              /\ log' = [NoLog EXCEPT !.op = "update_camera_buffer",
                                      !.events = r.events]
    /\ UNCHANGED <<app_vars, shader_vars, material_vars, light_vars, camera>>

NextCamera ==
    \/ CameraUpdate
    \/ UpdateCameraBuffer

SpecCamera == Init /\ [][NextCamera]_vars

(***************************************************************************)
(* App and Renderer::render                                                *)
(***************************************************************************)

\* The scene holds NumObjects objects, which share the material and carry
\* the same overrides.
NumObjects == 2

\* The model matrices of the objects in one frame: the first object turns,
\* the last one stays where it is.
FrameModels ==
    {[k \in 1..NumObjects |->
         IF k = NumObjects
         THEN [j \in 1..16 |-> IF j \in {1, 6, 11, 16} THEN "1.0" ELSE "-0.0"]
         ELSE m] : m \in Mat4In}

\* What the device can refuse in one frame: nothing, or the map or the unmap
\* of one of the two buffers; the panic that follows ends the frame.
Failures == {"none", "camera_map", "camera_unmap", "light_map", "light_unmap"}
camera_outcome(failure) == <<failure # "camera_map", failure # "camera_unmap">>
light_outcome(failure) == <<failure # "light_map", failure # "light_unmap">>

\* A call of a frame, with the buffer or program it was made on.
FrameEvent(e, target) == [ev |-> e.ev, name |-> e.name, on |-> target]
on(target, events) == [k \in 1..Len(events) |-> FrameEvent(events[k], target)]

\* The movement key Camera::update_position finds held: KeyW and KeyS
\* together cancel.
camera_key(im) ==
    IF is_key_pressed(im, "KeyW") /\ ~is_key_pressed(im, "KeyS") THEN "KeyW"
    ELSE IF is_key_pressed(im, "KeyS") /\ ~is_key_pressed(im, "KeyW") THEN "KeyS"
    ELSE "none"

\* Scene::update: the camera is updated from the input of the frame; the
\* scene's own list of light materials is empty, so no program is activated.
scene_update(cam, im) ==
    camera_update(cam, camera_key(im), is_mouse_button_pressed(im, "Right"),
                  im.mouse_delta, im.mouse_wheel_delta)

\* "Render objects": Object::render for every object of the scene, in list
\* order; models holds the model matrix of each; a panic ends the loop.
RECURSIVE render_objects(_, _, _, _)
render_objects(r, models, order, torder) ==
    IF models = <<>> \/ r.fatal # "none" THEN r
    ELSE LET rendered(m) ==
                 [r EXCEPT !.a = m,
                           !.fatal = m.fatal,
                           !.units = IF m.fatal = "none"
                                     THEN bind_textures(@, m.texture_to_slot)
                                     ELSE @,
                           !.frame = @ \o on("objects_shader", m.events)]
         IN  render_objects(
                 rendered(object_render([r.a EXCEPT !.events = <<>>], order,
                                        torder, Head(models))),
                 Tail(models), order, torder)

\* What Renderer::render starts from.
Frame(im) ==
    [wireframe |-> IF is_key_just_pressed(im, "KeyL") THEN ~wireframe ELSE wireframe,
     flashlight |-> IF is_key_just_pressed(im, "KeyG") THEN ~flashlight ELSE flashlight,
     camera |-> camera, camera_ubo |-> camera_ubo,
     light_uniforms |-> light_uniforms, light_ubo |-> light_ubo,
     a |-> Activation, units |-> gl_texture_units,
     fatal |-> "none", frame |-> <<>>]

\* The steps of Renderer::render after the key toggles, on the frame state r.
render_scene_update(r, im) == [r EXCEPT !.camera = scene_update(@, im)]

render_camera_buffer(r, ok) ==
    IF r.fatal # "none" THEN r
    ELSE LET uploaded(c) ==
                 [r EXCEPT !.camera_ubo = c.ubo, !.fatal = c.fatal,
                           !.frame = @ \o on("camera_ubo", c.events)]
         IN  uploaded(update_camera_buffer(r.camera_ubo, r.camera, ok[1], ok[2]))

render_light_parameters(r, ok) ==
    IF r.fatal # "none" THEN r
    ELSE LET uploaded(l) ==
                 [r EXCEPT !.light_uniforms = l.u, !.light_ubo = l.ubo,
                           !.fatal = l.fatal,
                           !.frame = @ \o on("light_ubo", l.events)]
         IN  uploaded(update_light_parameters(r.light_ubo, lights, ok[1], ok[2]))

\* "Color of the light emitter": the program of the first light material is
\* activated.
render_light_material(r) ==
    IF r.fatal # "none" THEN r
    ELSE [r EXCEPT !.frame = Append(@, FrameEvent(Event("UseProgram", ""),
                                                  "light_shader"))]

\* Renderer::render that draws the objects before it uploads the two blocks.
render_draws_first(im, camera_ok, light_ok, order, torder, models) ==
    render_light_material(
        render_light_parameters(
            render_camera_buffer(
                render_objects(render_scene_update(Frame(im), im),
                               models, order, torder),
                camera_ok),
            light_ok))

\* Renderer::render: the key toggles, Scene::update, update_camera_buffer,
\* update_light_parameters, the light material, the objects; a panic ends it.
render(im, camera_ok, light_ok, order, torder, models) ==
    render_objects(
        render_light_material(
            render_light_parameters(
                render_camera_buffer(render_scene_update(Frame(im), im),
                                     camera_ok),
                light_ok)),
        models, order, torder)

\* App::toggle_cursor_grab
toggle_cursor_grab(grabbed) == ~grabbed

\* The keyboard and the mouse send what can happen to a key or a button: a
\* press while it is up; a repeat or a release while it is down.
Physical(pressed, state, repeat) ==
    /\ repeat => state = "Pressed"
    /\ pressed <=> (state = "Released" \/ repeat)

\* App::window_event, WindowEvent::KeyboardInput, for an event the UI did
\* not consume.
KeyboardInput ==
    /\ fatal = "none"
    /\ since_update.events < MaxEvents
    /\ since_update' = [since_update EXCEPT !.events = @ + 1]
    /\ \E key \in Keys, state \in ElementStates, repeat \in BOOLEAN :
          /\ Physical(is_key_pressed(input_manager, key), state, repeat)
          /\ LET im == process_key_event(input_manager, key, state, repeat)
             IN  /\ input_manager' = im
                 /\ cursor_grabbed' = IF is_key_just_pressed(im, "AltLeft")
                                      THEN toggle_cursor_grab(cursor_grabbed)
                                      ELSE cursor_grabbed
          /\ log' = [NoLog EXCEPT !.op = "keyboard_input", !.name = key,
                                  !.state = state, !.repeat = repeat]
    /\ UNCHANGED <<shader_vars, material_vars, scene_vars, wireframe,
                   flashlight, fatal>>

\* App::window_event, WindowEvent::MouseInput
MouseInput ==
    /\ fatal = "none"
    /\ since_update.events < MaxEvents
    /\ since_update' = [since_update EXCEPT !.events = @ + 1]
    /\ \E button \in MouseButtons, state \in ElementStates :
          /\ Physical(is_mouse_button_pressed(input_manager, button), state, FALSE)
          /\ LET im == process_mouse_button(input_manager, button, state)
             IN  /\ input_manager' = im
                 /\ cursor_grabbed' =
                       IF is_mouse_button_just_pressed(im, "Right") THEN TRUE
                       ELSE IF is_mouse_button_just_released(im, "Right") THEN FALSE
                       ELSE cursor_grabbed
          /\ log' = [NoLog EXCEPT !.op = "mouse_input", !.name = button,
                                  !.state = state]
    /\ UNCHANGED <<shader_vars, material_vars, scene_vars, wireframe,
                   flashlight, fatal>>

\* App::device_event, DeviceEvent::MouseMotion
MouseMotion ==
    /\ fatal = "none"
    /\ since_update.events < MaxEvents
    /\ \E dx \in MotionDeltas :
          /\ input_manager' = process_mouse_delta(input_manager, dx)
          /\ since_update' = [since_update EXCEPT !.events = @ + 1,
                                                  !.motions = @ + 1,
                                                  !.moved = @ + dx]
    /\ log' = [NoLog EXCEPT !.op = "mouse_motion"]
    /\ UNCHANGED <<shader_vars, material_vars, scene_vars, cursor_grabbed,
                   wireframe, flashlight, fatal>>

\* App::window_event, WindowEvent::RedrawRequested: App::render_and_swap,
\* which renders the frame and then calls InputManager::update.
RedrawRequested ==
    /\ fatal = "none"
    /\ \E failure \in Failures,
          order \in Orderings(DOMAIN properties),
          torder \in Orderings(used_textures(properties) \ DOMAIN texture_to_slot),
          models \in FrameModels :
          \E r \in {render(input_manager, camera_outcome(failure),
                            light_outcome(failure), order, torder, models)} :
          LET done == r.fatal = "none"
          IN  /\ r.camera.position \in 0..MaxCameraPos
              /\ wireframe' = r.wireframe
              /\ flashlight' = r.flashlight
              /\ camera' = r.camera
              /\ camera_ubo' = r.camera_ubo
              /\ light_uniforms' = r.light_uniforms
              /\ light_ubo' = r.light_ubo
              /\ uniform_cache' = r.a.cache
              /\ gl_uniforms' = r.a.gl
              /\ last_set' = r.a.last
              /\ texture_to_slot' = r.a.texture_to_slot
              /\ texture_slots' = r.a.texture_slots
              /\ gl_texture_units' = r.units
              /\ fatal' = r.fatal
              /\ input_manager' = IF done THEN update(input_manager)
                                  ELSE input_manager
              /\ since_update' = IF done
                                 THEN [events |-> 0, motions |-> 0, moved |-> 0]
                                 ELSE since_update
              /\ log' = [NoLog EXCEPT !.op = "redraw_requested",
                                      !.setters = r.a.setters,
                                      !.gl_calls = r.a.gl_calls,
                                      !.commits = r.a.commits,
                                      !.frame = r.frame,
                                      !.camera_moved =
                                          r.camera.view_matrix # camera.view_matrix]
    /\ UNCHANGED <<properties, overrides, clones, lights, cursor_grabbed>>

NextApp ==
    \/ KeyboardInput
    \/ MouseInput
    \/ MouseMotion
    \/ RedrawRequested

SpecApp == Init /\ [][NextApp]_vars

\* The frames of a scene whose material and overrides were set up before
\* the first of them.
NextFrame ==
    \/ RedrawRequested
    \/ (SetUp /\ PropertiesSet)
    \/ (SetUp /\ PropertiesDelete)
    \/ (SetUp /\ OverridesSet)
    \/ (SetUp /\ OverridesDelete)

SpecFrame == Init /\ [][NextFrame]_vars

(***************************************************************************)
(* Properties                                                              *)
(***************************************************************************)

\* How often the latest operation called gl::Uniform* for a name.
gl_calls_for(l, name) ==
    BagCardinality([c \in {x \in BagToSet(l.gl_calls) : x.name = name} |-> l.gl_calls[c]])

\* The set_uniform calls the latest operation made for a name.
commits_for(l, name) ==
    [c \in {x \in BagToSet(l.commits) : x.name = name} |-> l.commits[c]]

\* C1: when set_uniform(name, v, setter) is called twice in a row with the
\* same v, the setter is not invoked by the second call; and whenever the
\* cached value for the name is the new value, the setter is not invoked and
\* the cache is left unchanged.
C1_SameValueTwice ==
    [][ /\ (/\ log.op = "set_uniform"
            /\ log'.op = "set_uniform"
            /\ log'.name = log.name
            /\ log'.value = log.value)
           => (log'.setters = EmptyBag /\ uniform_cache' = uniform_cache)
        /\ (/\ log'.op = "set_uniform"
            /\ log'.name \in DOMAIN uniform_cache
            /\ uniform_cache[log'.name] = log'.value)
           => (log'.setters = EmptyBag /\ uniform_cache' = uniform_cache)
      ]_vars

\* C2: as long as no call was fatal, the value last written to the device
\* for a name is the value passed to the most recent set call for that name.
C2_EveryChangePropagated ==
    fatal = "none" =>
        \A n \in DOMAIN last_set :
            n \in DOMAIN gl_uniforms /\ gl_uniforms[n] = last_set[n]

\* C3: at most NumSlots textures hold a slot, every assigned slot is below
\* NumSlots, and no two textures hold the same slot.
C3_SlotsBoundedAndDistinct ==
    /\ Cardinality(DOMAIN texture_to_slot) <= NumSlots
    /\ \A x \in DOMAIN texture_to_slot :
          texture_to_slot[x] >= 0 /\ texture_to_slot[x] < NumSlots
    /\ \A x, y \in DOMAIN texture_to_slot :
          texture_to_slot[x] = texture_to_slot[y] => x = y

\* An activation has filled every slot.
C3_Witness ==
    /\ log.op = "use_material"
    /\ Cardinality(DOMAIN texture_to_slot) = NumSlots
    /\ \A k \in DOMAIN texture_slots : texture_slots[k]

\* C4: after a completed use_material, only textures referenced by the
\* properties bound in that call hold a slot or were bound to a unit.
C4_OnlyReferencedTextures ==
    (log.op = "use_material" /\ fatal = "none") =>
        /\ DOMAIN texture_to_slot \subseteq resolved_textures
        /\ \A c \in BagToSet(log.binds) : c.texture \in resolved_textures

\* C5: a completed use_material commits every name of the base set and of
\* the override set.
C5_UnionCommitted ==
    (log.op = "use_material" /\ fatal = "none") =>
        \A n \in (DOMAIN properties) \cup (DOMAIN overrides) :
            commits_for(log, n) # EmptyBag

\* The uniform value a scalar property is committed as.
scalar_value(v) ==
    CASE v.kind = "Boolean"  -> UvInt(IF v.b THEN 1 ELSE 0)
      [] v.kind = "Integer"  -> UvInt(v.i)
      [] v.kind = "UInteger" -> UvUInt(v.i)
      [] v.kind = "Float"    -> UvFloat(v.f[1])
      [] v.kind = "Vec3"     -> VecF3(v.f)
      [] v.kind = "Color"    -> VecF3(v.f)

\* C6: for a base name with an override the value committed is the
\* override's, for a base name without one it is the base value; a completed
\* activation commits every base name.
C6_OverrideWins ==
    log.op = "use_material" =>
        /\ \A c \in BagToSet(log.commits) :
              /\ c.name \in DOMAIN properties
              /\ LET v == IF c.name \in DOMAIN overrides
                          THEN overrides[c.name]
                          ELSE properties[c.name]
                 IN  IF v.kind = "Texture"
                     THEN c.value.tag = "Int"
                     ELSE c.value = scalar_value(v)
        /\ fatal = "none" =>
              \A n \in DOMAIN properties : commits_for(log, n) # EmptyBag

\* An activation committed an override's value for a base name whose base
\* value differs, and a value for a base name without override.
C6_Witness ==
    /\ log.op = "use_material"
    /\ fatal = "none"
    /\ \E n \in (DOMAIN properties) \cap (DOMAIN overrides) :
          /\ overrides[n].kind # "Texture"
          /\ properties[n] # overrides[n]
          /\ [name |-> n, value |-> scalar_value(overrides[n])] \in BagToSet(log.commits)
    /\ \E n \in (DOMAIN properties) \ (DOMAIN overrides) :
          commits_for(log, n) # EmptyBag

\* C7: when an override supplies, for a name of the base set, a texture that
\* the base properties do not reference and fewer than NumSlots textures are
\* referenced, use_material completes, gives that texture a slot, commits
\* the slot and binds the texture.
C7_OverrideTextureGetsSlot ==
    \A n \in (DOMAIN overrides) \cap (DOMAIN properties) :
        (/\ log.op = "use_material"
         /\ overrides[n].kind = "Texture"
         /\ overrides[n].t \notin used_textures(properties)
         /\ Cardinality(resolved_textures) < NumSlots)
        => /\ fatal = "none"
           /\ overrides[n].t \in DOMAIN texture_to_slot
           /\ [name |-> n, value |-> UvInt(texture_to_slot[overrides[n].t])]
                 \in BagToSet(log.commits)
           /\ [texture |-> overrides[n].t, slot |-> texture_to_slot[overrides[n].t]]
                 \in BagToSet(log.binds)

\* C8: of two completed activations in a row, with nothing done in between,
\* the second issues no device write for any property and the first at most
\* one per property (exactly one when it started from an empty cache), while
\* each of the two binds every texture of the mapping exactly once.
C8_SecondActivationOnlyBinds ==
    [][ (/\ log.op = "use_material" /\ fatal = "none"
         /\ log'.op = "use_material" /\ fatal' = "none")
        => /\ \A n \in DOMAIN properties :
                /\ gl_calls_for(log', n) = 0
                /\ gl_calls_for(log, n) <= 1
                /\ log.first => gl_calls_for(log, n) = 1
           /\ log.binds = bind_calls(texture_to_slot)
           /\ log'.binds = bind_calls(texture_to_slot')
           /\ \A x \in resolved_textures :
                \E k \in 0..(NumSlots - 1) :
                    /\ CopiesIn([texture |-> x, slot |-> k], log.binds) = 1
                    /\ CopiesIn([texture |-> x, slot |-> k], log'.binds) = 1
      ]_vars

\* The second of two activations in a row of a material with one texture
\* and one integer property: it only bound the texture.
C8_Witness ==
    /\ log.op = "use_material"
    /\ log.streak = 2
    /\ fatal = "none"
    /\ DOMAIN properties = {"material.diffuse", "material.shininess"}
    /\ properties["material.diffuse"] = Texture(1)
    /\ properties["material.shininess"] = Integer(32)
    /\ overrides = Empty
    /\ log.gl_calls = EmptyBag
    /\ log.binds = bind_calls(texture_to_slot)
    /\ uniform_cache["material.shininess"] = UvInt(32)

\* The number of lights of a kind in a list.
count_kind(list, kind) == Cardinality({k \in 1..Len(list) : list[k] = kind})

\* The declared maximum of a kind, its counter in a block and its panic.
max_of(kind) ==
    CASE kind = "point" -> MAX_POINT_LIGHTS
      [] kind = "spot" -> MAX_SPOT_LIGHTS
      [] kind = "directional" -> MAX_DIRECTIONAL_LIGHTS
nr_of(u, kind) ==
    CASE kind = "point" -> u.nr_point_lights
      [] kind = "spot" -> u.nr_spot_lights
      [] kind = "directional" -> u.nr_directional_lights
panic_of(kind) ==
    CASE kind = "point" -> "Exceeded maximum number of point lights"
      [] kind = "spot" -> "Exceeded maximum number of spot lights"
      [] kind = "directional" -> "Exceeded maximum number of directional lights"

\* C9: every count of a packed light block is at most the maximum of its
\* kind; a block packed without a capacity panic counts exactly the lights
\* of each kind in the list, and is what reaches the device; a list with at
\* most the maximum of every kind packs without a capacity panic.
C9_CountsWithinMaxima ==
    log.op = "update_light_parameters" =>
        /\ \A k \in LightKinds : nr_of(light_uniforms, k) <= max_of(k)
        /\ (\A k \in LightKinds : fatal # panic_of(k)) =>
              \A k \in LightKinds : nr_of(light_uniforms, k) = count_kind(lights, k)
        /\ (\A k \in LightKinds : count_kind(lights, k) <= max_of(k)) =>
              \A k \in LightKinds : fatal # panic_of(k)
        /\ fatal = "none" =>
              /\ light_ubo.defined
              /\ light_ubo.data = light_uniforms
              /\ \A k \in LightKinds : nr_of(light_ubo.data, k) = count_kind(lights, k)

\* Exactly MAX_POINT_LIGHTS point lights, among others, were packed and
\* uploaded.
C9_Witness ==
    /\ log.op = "update_light_parameters"
    /\ fatal = "none"
    /\ count_kind(lights, "point") = MAX_POINT_LIGHTS
    /\ Len(lights) > MAX_POINT_LIGHTS
    /\ light_ubo.data.nr_point_lights = MAX_POINT_LIGHTS

\* C10: with more lights of some kind than its maximum, packing ends in the
\* capacity panic of such a kind; no count passes its maximum and nothing is
\* uploaded.
C10_CapacityPanicNamesKind ==
    (/\ log.op = "update_light_parameters"
     /\ \E k \in LightKinds : count_kind(lights, k) > max_of(k))
    => /\ \E k \in LightKinds :
             fatal = panic_of(k) /\ count_kind(lights, k) > max_of(k)
       /\ \A k \in LightKinds : nr_of(light_uniforms, k) <= max_of(k)
       /\ ~light_ubo.defined
       /\ light_ubo.data = zeroed
       /\ ~light_ubo.mapped

\* Packing a list with one point light too many has panicked.
C10_Witness ==
    /\ log.op = "update_light_parameters"
    /\ count_kind(lights, "point") = MAX_POINT_LIGHTS + 1
    /\ fatal = panic_of("point")
    /\ ~light_ubo.defined

\* C11: an activation of a material whose properties reference more than
\* NumSlots distinct textures ends in a panic, the one of the allocator when
\* every name is declared, and binds nothing; no slot index reaches NumSlots
\* and no slot is held by two textures, so no referenced texture was given
\* the slot of another or passed over.
C11_OverflowIsFatal ==
    /\ (log.op = "use_material" /\ Cardinality(resolved_textures) > NumSlots)
          => /\ fatal # "none"
             /\ (DOMAIN properties \subseteq uniforms) => fatal = "no_free_texture_slot"
             /\ log.binds = EmptyBag
    /\ \A x \in DOMAIN texture_to_slot : texture_to_slot[x] < NumSlots
    /\ \A x, y \in DOMAIN texture_to_slot :
          texture_to_slot[x] = texture_to_slot[y] => x = y

\* An activation with one texture more than there are slots has panicked
\* with every slot taken.
C11_Witness ==
    /\ log.op = "use_material"
    /\ Cardinality(resolved_textures) = NumSlots + 1
    /\ fatal = "no_free_texture_slot"
    /\ \A k \in DOMAIN texture_slots : texture_slots[k]

\* C12: a call that commits a name the program never declared ends in the
\* panic of get_uniform_location and writes nothing to the device for that
\* name; no operation that commits such a name returns.
C12_UndeclaredNameIsFatal ==
    /\ \A c \in BagToSet(log.commits) :
          c.name \notin uniforms
             => /\ fatal = "uniform_not_found"
                /\ gl_calls_for(log, c.name) = 0
    /\ \A n \in DOMAIN gl_uniforms : n \in uniforms
    /\ \A n \in DOMAIN last_set : n \notin uniforms => fatal = "uniform_not_found"

\* An activation reached the property with the undeclared name and panicked.
C12_Witness ==
    /\ log.op = "use_material"
    /\ "undeclared" \in DOMAIN properties
    /\ \E c \in BagToSet(log.commits) : c.name = "undeclared"
    /\ fatal = "uniform_not_found"
    /\ "undeclared" \notin DOMAIN gl_uniforms

\* The positions in a sequence of events at which a call is found.
positions(events, ev) == {k \in 1..Len(events) : events[k].ev = ev}

\* C13: no map_data leaves a buffer mapped: every update that mapped its
\* buffer also unmapped it afterwards, whether the update succeeded or
\* failed.
C13_MappedIsUnmapped ==
    /\ ~light_ubo.mapped
    /\ ~camera_ubo.mapped
    /\ log.op \in {"update_light_parameters", "update_camera_buffer"} =>
          \A k \in 1..Len(log.events) :
              log.events[k] = Event("MapBufferRange", "")
                 => \E j \in (k + 1)..Len(log.events) : log.events[j].ev = "UnmapBuffer"

\* An update mapped the buffer and failed on the unmap.
C13_Witness ==
    /\ log.op = "update_light_parameters"
    /\ fatal = "Couldn't update light UBO"
    /\ positions(log.events, "UnmapBuffer") # {}
    /\ ~light_ubo.mapped
    /\ ~light_ubo.defined

\* C14: an update that ends in a capacity panic has not mapped the light
\* buffer, and leaves it unmapped.
C14_CapacityFailureNotMapped ==
    (/\ log.op = "update_light_parameters"
     /\ \E k \in LightKinds : fatal = panic_of(k))
    => /\ ~light_ubo.mapped
       /\ positions(log.events, "MapBufferRange") = {}

\* An update of a list with one spot light too many has panicked.
C14_Witness ==
    /\ log.op = "update_light_parameters"
    /\ count_kind(lights, "spot") = MAX_SPOT_LIGHTS + 1
    /\ fatal = panic_of("spot")
    /\ ~light_ubo.mapped

\* C15: when map_data returned an Err, the buffer is neither mapped nor
\* bound to its target.
C15_ErrReleasesEverything ==
    (/\ log.op = "update_light_parameters"
     /\ fatal = "Couldn't update light UBO")
    => /\ ~light_ubo.mapped
       /\ ~light_ubo.bound

\* C20: an update_camera_buffer that returned left in the block the view
\* matrix, the projection matrix and the position (extended by 1.0) the
\* camera has, and the block is defined.
C20_CameraBlockRewritten ==
    (log.op = "update_camera_buffer" /\ fatal = "none")
    => /\ camera_ubo.defined
       /\ camera_ubo.data.view = camera.view_matrix
       /\ camera_ubo.data.projection = camera.projection_matrix
       /\ camera_ubo.data.view_pos = <<camera.position, 1>>

\* A block was replaced by one that differs from it in all three fields.
C20_Witness ==
    /\ log.op = "update_camera_buffer"
    /\ fatal = "none"
    /\ camera_ubo.data.view = look_to_rh(2, 1)
    /\ camera_ubo.data.projection = perspective_rh_gl(23)
    /\ camera_ubo.data.view_pos = <<2, 1>>

\* The positions of the uniform writes of material properties.
property_writes(events) ==
    {k \in 1..Len(events) : events[k].ev = "Uniform" /\ events[k].name # "model"}

\* C16: the calls of one Object::render reach the device in the order
\* UseProgram, the uniform writes of the properties, the texture binds, the
\* draw call: the first call is the one UseProgram, every property write
\* comes before every bind, and the draw call, issued exactly when nothing
\* panicked, is the last call, after one bind per entry of the mapping.
C16_RenderOrder ==
    log.op = "object_render" =>
        LET e == log.events
        IN  /\ positions(e, "UseProgram") = {1}
            /\ \A w \in property_writes(e), b \in positions(e, "BindTexture") : w < b
            /\ \A b \in positions(e, "BindTexture"), d \in positions(e, "Draw") : b < d
            /\ \A w \in property_writes(e), d \in positions(e, "Draw") : w < d
            /\ positions(e, "Draw") = IF fatal = "none" THEN {Len(e)} ELSE {}
            /\ fatal = "none" =>
                  Cardinality(positions(e, "BindTexture")) =
                      Cardinality(DOMAIN texture_to_slot)

\* A render wrote two properties, bound a texture and drew.
C16_Witness ==
    /\ log.op = "object_render"
    /\ fatal = "none"
    /\ Cardinality(property_writes(log.events)) >= 2
    /\ positions(log.events, "BindTexture") # {}
    /\ positions(log.events, "Draw") = {Len(log.events)}

\* C17: a use_material leaves the material's properties and the caller's
\* overrides as they were, and a clone_with_overrides leaves the properties
\* of the material it was called on as they were.
C17_InputsNotMutated ==
    [][ /\ log'.op \in {"use_material", "object_render"}
              => (properties' = properties /\ overrides' = overrides)
        /\ log'.op = "clone_with_overrides" => properties' = properties
      ]_vars

\* A clone was made whose properties differ from those of the material it
\* was made from, and an activation ran with an override in place.
C17_Witness ==
    /\ log.op = "object_render"
    /\ overrides # Empty
    /\ properties # Empty
    /\ Len(clones) = 1
    /\ clones[1].properties # properties

\* The slots held by the textures that kept their slot through the latest
\* activation, and the slots of those it added.
kept_slots == {texture_to_slot[x] : x \in (DOMAIN texture_to_slot) \ log.added}
added_slots == {texture_to_slot[x] : x \in log.added}

\* C18: the textures an activation adds to the mapping get the lowest slots
\* that no texture kept: no added slot is held by a kept texture and every
\* slot left free is above every added slot; so a texture added when the
\* only free slot is the one a removed texture gave up gets that slot.
C18_LowestFreeSlot ==
    log.op = "use_material" =>
        /\ log.added \subseteq DOMAIN texture_to_slot
        /\ added_slots \cap kept_slots = {}
        /\ \A a \in added_slots :
              \A f \in (0..(NumSlots - 1)) \ (kept_slots \cup added_slots) : a < f
        /\ \A r \in log.removed :
              (/\ Cardinality(log.added) = 1
               /\ (0..(NumSlots - 1)) \ kept_slots = {r.slot})
              => added_slots = {r.slot}

\* An activation took the last slot from a texture that left and gave it to
\* one that came, every other slot being held.
C18_Witness ==
    /\ log.op = "use_material"
    /\ fatal = "none"
    /\ Cardinality(log.added) = 1
    /\ \E r \in log.removed :
          /\ r.slot = NumSlots - 1
          /\ added_slots = {r.slot}
          /\ Cardinality(kept_slots) = NumSlots - 1

\* C19: of two completed activations in a row, with nothing done in
\* between, the second completes as well and leaves every texture the
\* properties resolve to on the slot it had.
C19_StableSlots ==
    [][ (/\ log.op = "use_material"
         /\ fatal = "none"
         /\ log'.op = "use_material")
        => /\ fatal' = "none"
           /\ \A x \in resolved_textures :
                 /\ x \in DOMAIN texture_to_slot
                 /\ x \in DOMAIN texture_to_slot'
                 /\ texture_to_slot'[x] = texture_to_slot[x]
      ]_vars

\* C21: a set_uniform call that was not suppressed has put the new value in
\* the cache before it invoked the setter: whenever the setter was invoked,
\* the cache holds the value of the call for the name, also when the setter
\* panicked on resolving the name and wrote nothing to the device.
C21_CacheUpdatedBeforeSetter ==
    (log.op = "set_uniform" /\ log.setters # EmptyBag)
    => /\ log.name \in DOMAIN uniform_cache
       /\ uniform_cache[log.name] = log.value
       /\ fatal = "uniform_not_found" => log.name \notin DOMAIN gl_uniforms

\* The setter of a call on an undeclared name panicked, and the cache holds
\* the value of that call.
C21_Witness ==
    /\ log.op = "set_uniform"
    /\ log.setters # EmptyBag
    /\ fatal = "uniform_not_found"
    /\ log.name = "undeclared"
    /\ "undeclared" \in DOMAIN uniform_cache
    /\ uniform_cache["undeclared"] = log.value

\* C22: one activation commits no name more than once, and commits only
\* names of the base set; for a name of the base set with an override the one
\* commit carries the override's value and none carries the base value.
C22_EachNameCommittedOnce ==
    log.op = "use_material" =>
        \A n \in Names :
            /\ BagCardinality(commits_for(log, n)) <= 1
            /\ n \notin DOMAIN properties => commits_for(log, n) = EmptyBag
            /\ (/\ n \in (DOMAIN properties) \cap (DOMAIN overrides)
                /\ overrides[n].kind # "Texture"
                /\ commits_for(log, n) # EmptyBag)
               => BagToSet(commits_for(log, n)) =
                     {[name |-> n, value |-> scalar_value(overrides[n])]}

\* A completed activation visited a name that has a base value and an
\* override that differs from it, and two names in all.
C22_Witness ==
    /\ log.op = "use_material"
    /\ fatal = "none"
    /\ Cardinality(DOMAIN properties) >= 2
    /\ \E n \in (DOMAIN properties) \cap (DOMAIN overrides) :
          /\ properties[n].kind # "Texture"
          /\ overrides[n].kind # "Texture"
          /\ scalar_value(properties[n]) # scalar_value(overrides[n])
          /\ BagCardinality(commits_for(log, n)) = 1

\* C23: after a completed activation, the slot committed for every texture
\* property it processed is a texture unit to which that property's texture
\* is bound.
C23_CommittedSlotIsBoundUnit ==
    (log.op = "use_material" /\ fatal = "none") =>
        \A n \in DOMAIN properties :
            lookup(n).kind = "Texture" =>
                \A c \in BagToSet(commits_for(log, n)) :
                    /\ c.value.tag = "Int"
                    /\ c.value.i \in DOMAIN gl_texture_units
                    /\ gl_texture_units[c.value.i] = lookup(n).t

\* The list position of the i-th light (0-based) of a kind.
nth_of_kind(list, kind, i) ==
    CHOOSE p \in 1..Len(list) :
        /\ list[p] = kind
        /\ Cardinality({q \in 1..(p - 1) : list[q] = kind}) = i

\* The array of a kind in a block.
array_of(u, kind) ==
    CASE kind = "point" -> u.point
      [] kind = "spot" -> u.spot
      [] kind = "directional" -> u.directional

\* C24: a block packed without a capacity panic holds, for every kind, the
\* i-th light of that kind in list order at index i of the array of that
\* kind and zeroed entries from the count on; every light of the list is
\* found in the array of its kind once and in no other array, and the count
\* of a kind is the number of lights of that kind.
C24_PackedPerKindInListOrder ==
    (/\ log.op = "update_light_parameters"
     /\ \A k \in LightKinds : fatal # panic_of(k))
    => /\ \A k \in LightKinds :
             /\ nr_of(light_uniforms, k) = count_kind(lights, k)
             /\ \A i \in DOMAIN array_of(light_uniforms, k) :
                   array_of(light_uniforms, k)[i] =
                      IF i < count_kind(lights, k)
                      THEN nth_of_kind(lights, k, i)
                      ELSE 0
       /\ \A p \in 1..Len(lights) :
             \A k \in LightKinds :
                 Cardinality({i \in DOMAIN array_of(light_uniforms, k) :
                                 array_of(light_uniforms, k)[i] = p})
                    = IF lights[p] = k THEN 1 ELSE 0

\* A list in which lights of three kinds alternate was packed: the second
\* point light is the fourth light of the list.
C24_Witness ==
    /\ log.op = "update_light_parameters"
    /\ fatal = "none"
    /\ Len(lights) >= 4
    /\ \A k \in LightKinds : count_kind(lights, k) >= 1
    /\ lights[1] = "point"
    /\ lights[4] = "point"
    /\ light_uniforms.point[1] = 4
    /\ light_uniforms.nr_point_lights >= 2

\* The in-use flags of a material agree with its mapping: a slot is flagged
\* exactly when one texture of the mapping is assigned to it.
flags_agree(m) ==
    /\ \A x \in DOMAIN m.texture_to_slot :
          m.texture_to_slot[x] \in DOMAIN m.texture_slots
    /\ \A i \in DOMAIN m.texture_slots :
          m.texture_slots[i] <=>
             Cardinality({x \in DOMAIN m.texture_to_slot :
                             m.texture_to_slot[x] = i}) = 1

\* C27: in every state the flags of the material agree with its mapping,
\* and so do those of every material made by clone_with_overrides.
C27_FlagsAgreeWithMapping ==
    /\ flags_agree(Self)
    /\ \A k \in 1..Len(clones) : flags_agree(clones[k])

\* A material that holds two textures on two slots was cloned, and drawn
\* with afterwards.
C27_Witness ==
    /\ log.op = "object_render"
    /\ Cardinality(DOMAIN texture_to_slot) = 2
    /\ Len(clones) = 1
    /\ Cardinality(DOMAIN clones[1].texture_to_slot) = 2
    /\ \E i \in DOMAIN clones[1].texture_slots : clones[1].texture_slots[i]

\* C26: mouse_delta() is the total movement of the mouse motion events
\* since the latest InputManager::update, and 0 when there was none.
C26_MouseDeltaIsTotal ==
    input_manager.mouse_delta = since_update.moved

\* C29: after a MouseInput event for the right button, the cursor is grabbed
\* exactly when the right button is pressed.
C29_GrabbedIffRightPressed ==
    (log.op = "mouse_input" /\ log.name = "Right")
    => (cursor_grabbed <=> is_mouse_button_pressed(input_manager, "Right"))

\* C30: a keyboard event toggles the cursor grab exactly when it is a press
\* of AltLeft that is not a repeat.
C30_OneTogglePerPress ==
    [][ log'.op = "keyboard_input"
        => ((cursor_grabbed' # cursor_grabbed)
              <=> (/\ log'.name = "AltLeft"
                   /\ log'.state = "Pressed"
                   /\ ~log'.repeat))
      ]_vars

\* The positions in the calls of a frame of those made on a target, and of
\* a call on a target.
frame_on(e, target) == {k \in 1..Len(e) : e[k].on = target}
frame_call(e, ev, target) == {k \in 1..Len(e) : e[k].ev = ev /\ e[k].on = target}

\* C25: in a frame every call on the camera buffer comes before every call
\* on the light buffer, and those before every call of the object renders;
\* a draw call has before it the map and, later, the unmap of each of the
\* two buffers, and both blocks are then defined and unmapped; the camera
\* block written is that of the camera after the scene update of the
\* frame; a frame that completes draws every object.
C25_FrameOrder ==
    log.op = "redraw_requested" =>
        LET e == log.frame
            draws == {k \in 1..Len(e) : e[k].ev = "Draw"}
            written(target) ==
                \E i \in frame_call(e, "MapBufferRange", target) :
                    \E j \in frame_call(e, "UnmapBuffer", target) : i < j
        IN  /\ \A c \in frame_on(e, "camera_ubo"), l \in frame_on(e, "light_ubo") : c < l
            /\ \A l \in frame_on(e, "light_ubo"), o \in frame_on(e, "objects_shader") : l < o
            /\ \A c \in frame_on(e, "camera_ubo"), o \in frame_on(e, "objects_shader") : c < o
            /\ draws \subseteq frame_on(e, "objects_shader")
            /\ \A d \in draws :
                  /\ \E j \in frame_call(e, "UnmapBuffer", "camera_ubo") : j < d
                  /\ \E j \in frame_call(e, "UnmapBuffer", "light_ubo") : j < d
            /\ draws # {} =>
                  /\ written("camera_ubo") /\ written("light_ubo")
                  /\ camera_ubo.defined /\ ~camera_ubo.mapped
                  /\ light_ubo.defined /\ ~light_ubo.mapped
            /\ (written("camera_ubo") /\ camera_ubo.defined) =>
                  /\ camera_ubo.data.view = camera.view_matrix
                  /\ camera_ubo.data.projection = camera.projection_matrix
            /\ fatal = "none" => Cardinality(draws) = NumObjects

\* A frame whose scene update turned the camera uploaded both blocks and
\* drew every object.
C25_Witness ==
    /\ log.op = "redraw_requested"
    /\ fatal = "none"
    /\ log.camera_moved
    /\ camera_ubo.data.view = camera.view_matrix
    /\ frame_call(log.frame, "UnmapBuffer", "light_ubo") # {}
    /\ Cardinality({k \in 1..Len(log.frame) : log.frame[k].ev = "Draw"}) = NumObjects

\* C28: every uniform write of a frame is made on the program that the
\* latest use_program before it activated.
C28_WritesReachCurrentProgram ==
    log.op = "redraw_requested" =>
        LET e == log.frame
        IN  \A k \in 1..Len(e) :
                e[k].ev = "Uniform" =>
                    LET before == {j \in 1..(k - 1) : e[j].ev = "UseProgram"}
                    IN  /\ before # {}
                        /\ \A j \in before :
                              (\A i \in before : i <= j) => e[j].on = e[k].on

\* A frame activated the program of the light material and then wrote
\* uniforms of two properties and the model matrix for the objects.
C28_Witness ==
    /\ log.op = "redraw_requested"
    /\ fatal = "none"
    /\ frame_call(log.frame, "UseProgram", "light_shader") # {}
    /\ Cardinality({log.frame[k].name :
                       k \in frame_call(log.frame, "Uniform", "objects_shader")}) >= 3
    /\ \E k \in frame_call(log.frame, "Uniform", "objects_shader") :
          log.frame[k].name = "model"

====
